---- MODULE Spec2Model ----
(***************************************************************************)
(* Model of the asciinema editor core (src/src/cast.rs and the Event codec *)
(* of src/src/asciicast_egui.rs).                                          *)
(*                                                                         *)
(* Bytes are modelled as one-character strings; a file is a sequence of    *)
(* bytes and every offset of the program is a 0-based index into it (the   *)
(* byte at offset i is mmap[i + 1]).  Event times are counted in ticks of  *)
(* a quarter second (4 = 1.0s, 6 = 1.5s), written as decimal numerals.     *)
(***************************************************************************)
EXTENDS Integers, Sequences, FiniteSets, TLC

\* ---------------------------------------------------------------- bytes
LF == "\n"
CR == "\r"
DQ == "\""
BS == "\\"
SP == " "
\* a byte that is not valid UTF-8
BAD == "BAD"

Digits == <<"0", "1", "2", "3", "4", "5", "6", "7", "8", "9">>

IsDigit(c) == \E i \in 1..10 : Digits[i] = c

DigitVal(c) == (CHOOSE i \in 1..10 : Digits[i] = c) - 1

\* char::is_whitespace on the bytes of the model
IsWs(c) == c \in {SP, LF, CR}

Min(a, b) == IF a < b THEN a ELSE b

\* F applied to the value of a, with a evaluated once
Bind(F(_), a) == CHOOSE r \in {F(x) : x \in {a}} : TRUE

\* s[from..to) with 0-based offsets, as a Rust slice
Slice(s, from, to) == SubSeq(s, from + 1, to)

RECURSIVE Flatten(_)
Flatten(ss) == IF ss = <<>> THEN <<>> ELSE Head(ss) \o Flatten(Tail(ss))

RECURSIVE SkipWs(_, _)
\* the first index at or after i that holds no whitespace
SkipWs(s, i) == IF i <= Len(s) /\ IsWs(s[i]) THEN SkipWs(s, i + 1) ELSE i

RECURSIVE LastNonWs(_, _)
\* the last index at or before i that holds no whitespace, or 0
LastNonWs(s, i) == IF i >= 1 /\ IsWs(s[i]) THEN LastNonWs(s, i - 1) ELSE i

\* str::trim
Trim(s) == SubSeq(s, SkipWs(s, 1), LastNonWs(s, Len(s)))

RECURSIVE SkipDQ(_, _)
SkipDQ(s, i) == IF i <= Len(s) /\ s[i] = DQ THEN SkipDQ(s, i + 1) ELSE i

RECURSIVE LastNonDQ(_, _)
LastNonDQ(s, i) == IF i >= 1 /\ s[i] = DQ THEN LastNonDQ(s, i - 1) ELSE i

\* str::trim_matches('"')
TrimMatchesDQ(s) == SubSeq(s, SkipDQ(s, 1), LastNonDQ(s, Len(s)))

\* ------------------------------------------------------------ numerals
RECURSIVE FormatNat(_)
FormatNat(n) ==
    IF n < 10 THEN <<Digits[n + 1]>>
    ELSE FormatNat(n \div 10) \o <<Digits[(n % 10) + 1]>>

RECURSIVE DigitsPrefixValue(_, _)
\* the value of the first k digits of s
DigitsPrefixValue(s, k) ==
    IF k = 0 THEN 0 ELSE 10 * DigitsPrefixValue(s, k - 1) + DigitVal(s[k])

DigitsValue(s) == DigitsPrefixValue(s, Len(s))

AllDigits(s) == s # <<>> /\ \A i \in 1..Len(s) : IsDigit(s[i])

\* str::parse::<f64> on a numeral of the model: [ok, val]
ParseF64(s) ==
    IF AllDigits(s) THEN [ok |-> TRUE, val |-> DigitsValue(s)]
    ELSE [ok |-> FALSE, val |-> 0]

U16Max == 65535

\* str::parse::<u16>
ParseU16(s) ==
    IF AllDigits(s) /\ Len(s) <= 6 /\ DigitsValue(s) <= U16Max
    THEN [ok |-> TRUE, val |-> DigitsValue(s)]
    ELSE [ok |-> FALSE, val |-> 0]

\* ----------------------------------------------------------- EventData
Output(text) == [variant |-> "Output", code |-> "o", text |-> text, cols |-> 0, rows |-> 0]
Input(text) == [variant |-> "Input", code |-> "i", text |-> text, cols |-> 0, rows |-> 0]
Resize(cols, rows) == [variant |-> "Resize", code |-> "r", text |-> <<>>, cols |-> cols, rows |-> rows]
Marker(text) == [variant |-> "Marker", code |-> "m", text |-> text, cols |-> 0, rows |-> 0]
Other(code, text) == [variant |-> "Other", code |-> code, text |-> text, cols |-> 0, rows |-> 0]

Event(time, data) == [time |-> time, data |-> data]

EventPositioned(event, byte_location) == [event |-> event, byte_location |-> byte_location]

\* the match on the event code shared by both decoding paths
RECURSIVE IndexOfX(_, _)
IndexOfX(s, i) ==
    IF i > Len(s) THEN 0 ELSE IF s[i] = "x" THEN i ELSE IndexOfX(s, i + 1)

EventDataFromCode(code, data) ==
    CASE code = "o" -> [ok |-> TRUE, data |-> Output(data)]
      [] code = "i" -> [ok |-> TRUE, data |-> Input(data)]
      [] code = "m" -> [ok |-> TRUE, data |-> Marker(data)]
      [] code = "r" ->
            LET x == IndexOfX(data, 1)
                cols == ParseU16(SubSeq(data, 1, x - 1))
                rows == ParseU16(SubSeq(data, x + 1, Len(data)))
            IN IF x = 0 \/ ~cols.ok \/ ~rows.ok
               THEN [ok |-> FALSE, data |-> Output(<<>>)]
               ELSE [ok |-> TRUE, data |-> Resize(cols.val, rows.val)]
      [] OTHER -> [ok |-> TRUE, data |-> Other(code, data)]

\* ------------------------------------------------------- serialization
RECURSIVE ReplaceDQ(_)
\* data.replace('"', "\\\"")
ReplaceDQ(s) ==
    IF s = <<>> THEN <<>>
    ELSE (IF Head(s) = DQ THEN <<BS, DQ>> ELSE <<Head(s)>>) \o ReplaceDQ(Tail(s))

\* get_data / the (code, data) pair of Serialize for Event
EventDataText(d) ==
    IF d.variant = "Resize" THEN FormatNat(d.cols) \o <<"x">> \o FormatNat(d.rows)
    ELSE d.text

\* format!("[{}, \"{}\", \"{}\"]", time, code, data.replace(..))
EventFormatted(e) ==
    <<"[">> \o FormatNat(e.time) \o <<",", SP, DQ, e.data.code, DQ, ",", SP, DQ>>
        \o ReplaceDQ(EventDataText(e.data)) \o <<DQ, "]">>

RECURSIVE JsonEscape(_)
\* the escaping serde_json applies inside a JSON string
JsonEscape(s) ==
    IF s = <<>> THEN <<>>
    ELSE (CASE Head(s) = DQ -> <<BS, DQ>>
            [] Head(s) = BS -> <<BS, BS>>
            [] Head(s) = LF -> <<BS, "n">>
            [] Head(s) = CR -> <<BS, "r">>
            [] OTHER -> <<Head(s)>>) \o JsonEscape(Tail(s))

\* serde_json's serialize_str / to_string of a string
JsonString(s) == <<DQ>> \o JsonEscape(s) \o <<DQ>>

\* serde_json::to_string(event): Serialize for Event hands the formatted
\* text to serialize_str
SerializeEvent(e) == JsonString(EventFormatted(e))

\* CastFile::serialize_event
serialize_event(e) == SerializeEvent(e) \o <<LF>>

\* ----------------------------------------------------- deserialization
NoEvent == Event(0, Output(<<>>))

DeErr == [ok |-> FALSE, event |-> NoEvent]

RECURSIVE ParseJsonStr(_, _, _)
\* serde_json's string reader, started right after the opening quote
ParseJsonStr(s, i, acc) ==
    IF i > Len(s) THEN [ok |-> FALSE, str |-> <<>>, next |-> i]
    ELSE IF s[i] = DQ THEN [ok |-> TRUE, str |-> acc, next |-> i + 1]
    ELSE IF s[i] = BS THEN
        IF i + 1 > Len(s) THEN [ok |-> FALSE, str |-> <<>>, next |-> i]
        ELSE CASE s[i + 1] = DQ -> ParseJsonStr(s, i + 2, Append(acc, DQ))
               [] s[i + 1] = BS -> ParseJsonStr(s, i + 2, Append(acc, BS))
               [] s[i + 1] = "n" -> ParseJsonStr(s, i + 2, Append(acc, LF))
               [] s[i + 1] = "r" -> ParseJsonStr(s, i + 2, Append(acc, CR))
               [] OTHER -> [ok |-> FALSE, str |-> <<>>, next |-> i]
    ELSE IF s[i] \in {LF, CR} THEN [ok |-> FALSE, str |-> <<>>, next |-> i]
    ELSE ParseJsonStr(s, i + 1, Append(acc, s[i]))

RECURSIVE DigitRunEnd(_, _)
DigitRunEnd(s, i) == IF i <= Len(s) /\ IsDigit(s[i]) THEN DigitRunEnd(s, i + 1) ELSE i

JsonNone == [ok |-> FALSE, kind |-> "None", num |-> 0, str |-> <<>>, next |-> 0]

\* one array element: a JSON number or a JSON string
ParseJsonScalar(s, i) ==
    IF i > Len(s) THEN JsonNone
    ELSE IF s[i] = DQ THEN
        Bind(LAMBDA r : [ok |-> r.ok, kind |-> "String", num |-> 0, str |-> r.str,
                         next |-> r.next],
             ParseJsonStr(s, i + 1, <<>>))
    ELSE IF IsDigit(s[i]) THEN
        Bind(LAMBDA j : IF s[i] = "0" /\ j > i + 1 THEN JsonNone
                        ELSE [ok |-> TRUE, kind |-> "Number",
                              num |-> DigitsValue(SubSeq(s, i, j - 1)),
                              str |-> <<>>, next |-> j],
             DigitRunEnd(s, i))
    ELSE JsonNone

NoElems == [ok |-> FALSE, elems |-> <<>>, next |-> 0]

RECURSIVE ParseJsonElems(_, _, _)
\* the elements of a JSON array, started at the first element
ParseJsonElems(s, i, acc) ==
    Bind(LAMBDA e :
            IF ~e.ok THEN NoElems
            ELSE Bind(LAMBDA j :
                        IF j > Len(s) THEN NoElems
                        ELSE IF s[j] = "," THEN
                            Bind(LAMBDA t : ParseJsonElems(s, t[1], t[2]),
                                 <<SkipWs(s, j + 1), Append(acc, e)>>)
                        ELSE IF s[j] = "]" THEN
                            [ok |-> TRUE, elems |-> Append(acc, e), next |-> j + 1]
                        ELSE NoElems,
                      SkipWs(s, e.next)),
         ParseJsonScalar(s, i))

JsonInvalid == [kind |-> "Invalid", str |-> <<>>, elems |-> <<>>]

\* a JSON string value, started at its opening quote at index i
ParseJsonStringValue(s, i) ==
    Bind(LAMBDA r : IF r.ok /\ SkipWs(s, r.next) > Len(s)
                    THEN [kind |-> "String", str |-> r.str, elems |-> <<>>]
                    ELSE JsonInvalid,
         ParseJsonStr(s, i + 1, <<>>))

\* a JSON array value, started at its opening bracket at index i
ParseJsonArrayValue(s, i) ==
    Bind(LAMBDA j :
            Bind(LAMBDA r : IF r.ok /\ SkipWs(s, r.next) > Len(s)
                            THEN [kind |-> "Array", str |-> <<>>, elems |-> r.elems]
                            ELSE JsonInvalid,
                 IF j <= Len(s) /\ s[j] = "]"
                 THEN [ok |-> TRUE, elems |-> <<>>, next |-> j + 1]
                 ELSE ParseJsonElems(s, j, <<>>)),
         SkipWs(s, i + 1))

\* serde_json::from_str::<Value>: a string, an array of scalars, or neither
ParseJsonValue(s) ==
    Bind(LAMBDA i : IF i > Len(s) THEN JsonInvalid
                    ELSE IF s[i] = DQ THEN ParseJsonStringValue(s, i)
                    ELSE IF s[i] = "[" THEN ParseJsonArrayValue(s, i)
                    ELSE JsonInvalid,
         SkipWs(s, 1))

LexInit == [parts |-> <<>>, current |-> <<>>, in_quotes |-> FALSE, escaped |-> FALSE]

\* one step of the character state machine of the lexer
LexStep(st, c) ==
    CASE c = DQ /\ st.escaped ->
            [st EXCEPT !.current = Append(@, c), !.escaped = FALSE]
      [] c = BS /\ ~st.escaped ->
            [st EXCEPT !.escaped = TRUE]
      [] c = DQ /\ ~st.escaped ->
            [st EXCEPT !.in_quotes = ~@]
      [] c = "," /\ ~st.in_quotes /\ ~st.escaped ->
            IF st.current # <<>>
            THEN [st EXCEPT !.parts = Append(@, Trim(st.current)), !.current = <<>>]
            ELSE st
      [] OTHER ->
            [st EXCEPT !.current = Append(@, c), !.escaped = FALSE]

RECURSIVE LexRun(_, _, _)
LexRun(s, i, st) ==
    IF i > Len(s) THEN st
    ELSE Bind(LAMBDA t : LexRun(s, i + 1, t), LexStep(st, s[i]))

\* the parts the lexer splits the text between the brackets into
LexParts(inner) ==
    Bind(LAMBDA st : IF st.current # <<>> THEN Append(st.parts, Trim(st.current))
                     ELSE st.parts,
         LexRun(inner, 1, LexInit))

\* the event built from the time, the code and the payload text
EventFromFields(time, codes, data) ==
    IF ~time.ok \/ codes = <<>> THEN DeErr
    ELSE Bind(LAMBDA ed : IF ~ed.ok THEN DeErr
                          ELSE [ok |-> TRUE, event |-> Event(time.val, ed.data)],
              EventDataFromCode(Head(codes), data))

\* Deserialize for Event, Value::String branch
DeserializeString(input) ==
    IF input = <<>> \/ Head(input) # "[" \/ input[Len(input)] # "]" THEN DeErr
    ELSE Bind(LAMBDA parts :
                 IF Len(parts) # 3 THEN DeErr
                 ELSE EventFromFields(ParseF64(parts[1]), TrimMatchesDQ(parts[2]),
                                      TrimMatchesDQ(parts[3])),
              LexParts(SubSeq(input, 2, Len(input) - 1)))

\* Deserialize for Event, Value::Array branch (three elements)
DeserializeArray(arr) ==
    IF arr[1].kind # "Number" THEN DeErr
    ELSE IF arr[2].kind # "String" \/ arr[2].str = <<>> THEN DeErr
    ELSE IF arr[3].kind # "String" THEN DeErr
    ELSE Bind(LAMBDA data :
                 EventFromFields([ok |-> TRUE, val |-> arr[1].num], arr[2].str, data),
              TrimMatchesDQ(JsonString(arr[3].str)))

\* serde_json::from_str::<Event>(line)
DeserializeEvent(line) ==
    Bind(LAMBDA v : CASE v.kind = "String" -> DeserializeString(v.str)
                      [] v.kind = "Array" /\ Len(v.elems) = 3 -> DeserializeArray(v.elems)
                      [] OTHER -> DeErr,
         ParseJsonValue(line))

\* ------------------------------------------------------------ CastFile
None == <<>>

Some(x) == <<x>>

\* ModificationChain::new
NewChain == [modifications |-> <<>>, original_deleted |-> FALSE]

RECURSIVE SortedSeq(_)
\* the keys of a BTreeMap in iteration order
SortedSeq(S) ==
    IF S = {} THEN <<>>
    ELSE LET m == CHOOSE x \in S : \A y \in S : x <= y
         IN <<m>> \o SortedSeq(S \ {m})

RECURSIVE PositionLF(_, _)
\* offset of the first LF at or after offset from, or -1
PositionLF(buffer, from) ==
    IF from >= Len(buffer) THEN -1
    ELSE IF buffer[from + 1] = LF THEN from
    ELSE PositionLF(buffer, from + 1)

RECURSIVE RPositionLF(_, _)
\* offset of the last LF before offset to, or -1
RPositionLF(buffer, to) ==
    IF to <= 0 THEN -1
    ELSE IF buffer[to] = LF THEN to - 1
    ELSE RPositionLF(buffer, to - 1)

find_next_newline(buffer, start) ==
    LET pos == PositionLF(buffer, start)
    IN IF pos < 0 THEN Len(buffer) ELSE pos + 1

InsertAt(s, i, x) == SubSeq(s, 1, i) \o <<x>> \o SubSeq(s, i + 1, Len(s))

RemoveAt(s, i) == SubSeq(s, 1, i) \o SubSeq(s, i + 2, Len(s))

Clamp(x, lo, hi) == IF x < lo THEN lo ELSE IF x > hi THEN hi ELSE x

\* self.modifications.entry(byte_location).or_insert_with(ModificationChain::new)
EntryOrInsert(mods, byte_location) ==
    IF byte_location \in DOMAIN mods THEN mods ELSE mods @@ (byte_location :> NewChain)

\* ModificationAction and AdvancedModificationAction values
NoTarget == EventPositioned(NoEvent, 0)

Addition(event) ==
    [kind |-> "Addition", event |-> event, data |-> event.data,
     target |-> NoTarget, target_order |-> 0]
Deletion ==
    [kind |-> "Deletion", event |-> NoEvent, data |-> NoEvent.data,
     target |-> NoTarget, target_order |-> 0]
ModifyData(data) ==
    [kind |-> "ModifyData", event |-> NoEvent, data |-> data,
     target |-> NoTarget, target_order |-> 0]
Modify(event) ==
    [kind |-> "Modify", event |-> event, data |-> event.data,
     target |-> NoTarget, target_order |-> 0]
Swap(target, target_order) ==
    [kind |-> "Swap", event |-> NoEvent, data |-> NoEvent.data,
     target |-> target, target_order |-> target_order]

\* the timing check of Addition with the lower bound admitted
TimingValid_LowerInclusive(previous_event, event, current_event) ==
    previous_event.event.time <= event.time /\ event.time < current_event.event.time

\* the timing check of Addition
TimingValid(previous_event, event, current_event) ==
    previous_event.event.time < event.time /\ event.time < current_event.event.time

\* the Deletion arm removing the last insertion when the order is past the end
DeleteAt_ClampedRemove(entry, order) ==
    IF entry.modifications # <<>>
    THEN [entry EXCEPT !.modifications =
                          RemoveAt(@, Min(order, Len(entry.modifications) - 1))]
    ELSE [entry EXCEPT !.original_deleted = ~@]

\* the Deletion arm on the chain of the entry
DeleteAt(entry, order) ==
    IF order < Len(entry.modifications)
    THEN [entry EXCEPT !.modifications = RemoveAt(@, order)]
    ELSE [entry EXCEPT !.original_deleted = ~@]

\* the ModifyData arm rewriting the last insertion when the order is past the end
SetDataAt_ClampedIndex(entry, order, data) ==
    IF entry.modifications # <<>>
    THEN [res |-> "Ok",
          entry |-> [entry EXCEPT !.modifications[Min(order, Len(entry.modifications) - 1) + 1].data = data]]
    ELSE [res |-> "ModificationError", entry |-> entry]

\* the ModifyData arm on the chain of the entry
SetDataAt(entry, order, data) ==
    IF order < Len(entry.modifications)
    THEN [res |-> "Ok", entry |-> [entry EXCEPT !.modifications[order + 1].data = data]]
    ELSE [res |-> "ModificationError", entry |-> entry]

\* CastFile::action: the returned value and the Overlay store after the call
action(mods, act, order0, current_event, previous_event) ==
    LET loc == current_event.byte_location
        m1 == EntryOrInsert(mods, loc)
        entry == m1[loc]
        order == Clamp(order0, 0, Len(entry.modifications))
    IN CASE act.kind = "Addition" ->
              IF previous_event = None
              THEN [res |-> "UnverifiableTime", mods |-> m1]
              ELSE IF TimingValid(previous_event[1], act.event, current_event)
              THEN [res |-> "Ok",
                    mods |-> [m1 EXCEPT ![loc].modifications = InsertAt(@, order, act.event)]]
              ELSE [res |-> "TimingError", mods |-> m1]
         [] act.kind = "Deletion" ->
              [res |-> "Ok", mods |-> [m1 EXCEPT ![loc] = DeleteAt(entry, order)]]
         [] act.kind = "ModifyData" ->
              [res |-> SetDataAt(entry, order, act.data).res,
               mods |-> [m1 EXCEPT ![loc] = SetDataAt(entry, order, act.data).entry]]

\* the context check of Modify asking for the next event only
ModifyContextKnown_NextOnly(previous_event, next_event) == next_event # None

\* the context check of Modify: both neighbours are given
ModifyContextKnown(previous_event, next_event) ==
    next_event # None /\ previous_event # None

\* the payloads of a Swap with the target's payload given to both entries
SwapData_TargetTwice(current_event, target_event) ==
    [current_data |-> target_event.event.data, targeted_data |-> target_event.event.data]

\* the two payloads a Swap clones before it writes either
SwapData(current_event, target_event) ==
    [current_data |-> current_event.event.data, targeted_data |-> target_event.event.data]

\* CastFile::advanced_action
advanced_action(mods, act, order0, current_event, previous_event, next_event) ==
    LET loc == current_event.byte_location
        m1 == EntryOrInsert(mods, loc)
        order == Clamp(order0, 0, Len(m1[loc].modifications))
    IN CASE act.kind = "Modify" ->
              IF ~ModifyContextKnown(previous_event, next_event)
              THEN [res |-> "UnverifiableTime", mods |-> m1]
              ELSE LET d == action(m1, Deletion, order, current_event, None)
                       a == action(d.mods, Addition(act.event), 0, next_event[1], previous_event)
                   IN IF d.res # "Ok" THEN d ELSE a
         [] act.kind = "Swap" ->
              LET sd == SwapData(current_event, act.target)
                  a == action(m1, ModifyData(sd.targeted_data), order, current_event, None)
                  b == action(a.mods, ModifyData(sd.current_data), act.target_order,
                              act.target, None)
              IN [res |-> "Ok", mods |-> b.mods]

\* get_order with a time that no insertion holds taken to the front of the chain
get_order_MissIsZero(mods, byte_location, base_event) ==
    IF byte_location \notin DOMAIN mods THEN 0
    ELSE LET chain == mods[byte_location].modifications
             hits == {i \in 1..Len(chain) : chain[i].time = base_event.time}
         IN IF hits = {} THEN 0
            ELSE (CHOOSE i \in hits : \A j \in hits : i <= j) - 1

\* CastFile::get_order
get_order(mods, byte_location, base_event) ==
    IF byte_location \notin DOMAIN mods THEN 0
    ELSE LET chain == mods[byte_location].modifications
             hits == {i \in 1..Len(chain) : chain[i].time = base_event.time}
         IN IF hits = {} THEN Len(chain)
            ELSE (CHOOSE i \in hits : \A j \in hits : i <= j) - 1

RECURSIVE StrLinesFrom(_, _)
\* str::lines on s[from..]: split after each LF, a CR before the LF dropped
StrLinesFrom(s, from) ==
    IF from >= Len(s) THEN <<>>
    ELSE Bind(LAMBDA nl :
                 IF nl < 0 THEN <<Slice(s, from, Len(s))>>
                 ELSE <<Slice(s, from, IF nl > from /\ s[nl] = CR THEN nl - 1 ELSE nl)>>
                          \o StrLinesFrom(s, nl + 1),
              PositionLF(s, from))

\* the body of the loop of parse_events for one line
ParseLine(line, line_start) ==
    Bind(LAMBDA t :
            IF t = <<>> THEN <<>>
            ELSE Bind(LAMBDA de : IF de.ok THEN <<EventPositioned(de.event, line_start)>>
                                  ELSE <<>>,
                      DeserializeEvent(t)),
         Trim(line))

RECURSIVE ParseLines(_, _, _)
\* the loop of parse_events from the i-th line on, current_position advancing
ParseLines(ls, i, current_position) ==
    IF i > Len(ls) THEN <<>>
    ELSE ParseLine(ls[i], current_position)
             \o ParseLines(ls, i + 1, current_position + Len(ls[i]) + 1)

\* parse_events(slice, base_position)
parse_events(slice, base_position) ==
    Bind(LAMBDA sl :
            IF \E i \in 1..Len(sl) : sl[i] = BAD
            THEN [ok |-> FALSE, events |-> <<>>]
            ELSE Bind(LAMBDA ls : [ok |-> TRUE, events |-> ParseLines(ls, 1, base_position)],
                      StrLinesFrom(sl, 0)),
         slice)

\* the insertions of a chain as get_lines returns them
PositionEvents(evs, byte_location) ==
    [i \in 1..Len(evs) |-> EventPositioned(evs[i], byte_location)]

RECURSIVE NthLF(_, _, _)
\* offset of the n-th LF at or after offset from (n >= 1), or -1
NthLF(buffer, from, n) ==
    Bind(LAMBDA p : IF p < 0 THEN -1 ELSE IF n = 1 THEN p ELSE NthLF(buffer, p + 1, n - 1),
         PositionLF(buffer, from))

\* get_lines: where the window starts, 0 when the file has no newline
WindowStart(mm, byte_pos) ==
    Bind(LAMBDA fwd : IF fwd >= 0 THEN fwd + 1 ELSE RPositionLF(mm, byte_pos) + 1,
         PositionLF(mm, byte_pos))

\* get_lines: where the window ends
WindowEnd(mm, current_pos, n) ==
    IF n = 0 THEN current_pos
    ELSE Bind(LAMBDA p : IF p < 0 THEN Len(mm) ELSE p + 1, NthLF(mm, current_pos, n))

\* the events of a slice, nothing when parse_events fails
ParsedOrNone(mm, from, to) ==
    Bind(LAMBDA parsed : IF parsed.ok THEN parsed.events ELSE <<>>,
         parse_events(Slice(mm, from, to), from))

RECURSIVE GetLinesMerge(_, _, _, _, _, _)
\* the merge loop of get_lines; ks are the keys in the window still to visit
GetLinesMerge(mm, mods, current_pos, end_pos, ks, events) ==
    IF current_pos >= end_pos THEN [res |-> "Ok", events |-> events]
    ELSE IF ks # <<>> /\ Head(ks) = current_pos THEN
        Bind(LAMBDA t : GetLinesMerge(mm, mods, t[1], end_pos, Tail(ks), t[2]),
             <<IF mods[current_pos].original_deleted
               THEN find_next_newline(mm, current_pos) ELSE current_pos,
               events \o PositionEvents(mods[current_pos].modifications, current_pos)>>)
    ELSE IF ks # <<>> THEN
        Bind(LAMBDA parse_end :
                IF current_pos > parse_end THEN [res |-> "Panic", events |-> <<>>]
                ELSE Bind(LAMBDA evs : GetLinesMerge(mm, mods, parse_end, end_pos, ks, evs),
                          events \o ParsedOrNone(mm, current_pos, parse_end)),
             Min(Head(ks), end_pos))
    ELSE [res |-> "Ok", events |-> events \o ParsedOrNone(mm, current_pos, end_pos)]

\* the window [current_pos, end_pos) of get_lines
WindowBounds(mm, byte_pos, n) ==
    Bind(LAMBDA current_pos : <<current_pos, WindowEnd(mm, current_pos, n)>>,
         WindowStart(mm, byte_pos))

\* BTreeMap::range(from..to) as the sequence of its keys
KeysInRange(mods, from, to) == SortedSeq({k \in DOMAIN mods : from <= k /\ k < to})

\* CastFile::get_lines, with byte_pos = (pos * file_size) as usize
get_lines(mm, mods, byte_pos, n) ==
    Bind(LAMBDA w :
            IF w[1] = 0 THEN [res |-> "DeserializationError", events |-> <<>>]
            ELSE GetLinesMerge(mm, mods, w[1], w[2], KeysInRange(mods, w[1], w[2]), <<>>),
         WindowBounds(mm, byte_pos, n))

\* Serialize for Header, reduced to the version field
HeaderJson(h) == <<"{">> \o FormatNat(h.version) \o <<"}">>

Chunk(kind, at, idx, bytes) == [kind |-> kind, at |-> at, idx |-> idx, bytes |-> bytes]

\* the serialized insertions of one chain, one chunk per event
ChainChunks(chain, at) ==
    [i \in 1..Len(chain.modifications) |->
        Chunk("ins", at, i - 1, serialize_event(chain.modifications[i]))]

RECURSIVE WriteMerge(_, _, _, _, _)
\* the merge loop of write_modified_file; each write_all is one chunk
WriteMerge(mm, mods, current_pos, ks, chunks) ==
    IF current_pos >= Len(mm) THEN [res |-> "Ok", chunks |-> chunks]
    ELSE IF ks # <<>> /\ Head(ks) = current_pos THEN
        Bind(LAMBDA t : WriteMerge(mm, mods, t[1], Tail(ks), t[2]),
             <<IF mods[current_pos].original_deleted
               THEN find_next_newline(mm, current_pos) ELSE current_pos,
               chunks \o ChainChunks(mods[current_pos], current_pos)>>)
    ELSE IF ks # <<>> THEN
        Bind(LAMBDA write_end :
                IF current_pos > write_end THEN [res |-> "Panic", chunks |-> chunks]
                ELSE Bind(LAMBDA cs : WriteMerge(mm, mods, write_end, ks, cs),
                          Append(chunks, Chunk("orig", current_pos, 0,
                                               Slice(mm, current_pos, write_end)))),
             Min(Head(ks), Len(mm)))
    ELSE [res |-> "Ok",
          chunks |-> Append(chunks, Chunk("orig", current_pos, 0,
                                          Slice(mm, current_pos, Len(mm))))]

\* the skip of the header line stopping at its LF
HeaderSkip_KeepsTerminator(mm) == IF PositionLF(mm, 0) < 0 THEN Len(mm) + 1 ELSE PositionLF(mm, 0)

\* write_modified_file: the offset after the header line
HeaderSkip(mm) == IF PositionLF(mm, 0) < 0 THEN Len(mm) + 1 ELSE PositionLF(mm, 0) + 1

\* CastFile::write_modified_file (save_to_file hands it the created file)
write_modified_file(mm, hdr, mods) ==
    WriteMerge(mm, mods, HeaderSkip(mm), SortedSeq(DOMAIN mods),
               <<Chunk("header", 0, 0, HeaderJson(hdr) \o <<LF>>)>>)

\* the bytes of a written file
ChunkBytes(chunks) == Flatten([i \in 1..Len(chunks) |-> chunks[i].bytes])

\* ------------------------------------------------------- state machine
\* bounds of the model
MaxEdits == 2
MaxOrder == 1
MaxN == 3
PosDen == 3

\* an event line as asciinema writes it, without its terminator
EventLine(time, code, text) ==
    <<"[">> \o FormatNat(time) \o <<",", DQ, code, DQ, ",", DQ>> \o text \o <<DQ, "]">>

\* the header line, its JSON object reduced to the version it carries
HeaderLine == <<"{", "2", "}">>

\* three events at 1.0s, 2.0s, 3.0s, lines ended by LF
FileLF ==
    HeaderLine \o <<LF>> \o EventLine(4, "o", <<"a">>) \o <<LF>>
        \o EventLine(8, "o", <<"b">>) \o <<LF>> \o EventLine(12, "o", <<"c">>) \o <<LF>>

\* the same recording with lines ended by CR LF
FileCRLF ==
    HeaderLine \o <<CR, LF>> \o EventLine(4, "o", <<"a">>) \o <<CR, LF>>
        \o EventLine(8, "o", <<"b">>) \o <<CR, LF>> \o EventLine(12, "o", <<"c">>) \o <<CR, LF>>

\* a partially written second line and no terminator after the last line
FileRagged ==
    HeaderLine \o <<LF>> \o EventLine(4, "o", <<"a">>) \o <<LF>>
        \o <<"[", "8", ",">> \o <<LF>> \o EventLine(12, "o", <<"c">>)

\* a second line whose payload holds a byte that is not valid UTF-8
FileBadUtf8 ==
    HeaderLine \o <<LF>> \o EventLine(4, "o", <<"a">>) \o <<LF>>
        \o EventLine(8, "o", <<BAD>>) \o <<LF>> \o EventLine(12, "o", <<"c">>) \o <<LF>>

\* a header line and no event
FileEmptyBody == HeaderLine \o <<LF>>

Files == {FileLF, FileCRLF, FileRagged, FileBadUtf8, FileEmptyBody}

\* the payloads a caller passes to ModifyData
NewData == {Output(<<"x">>), Output(<<BS, "n">>)}

\* the times a caller inserts at: 1.5s between the first two events, 2.5s and
\* 2.75s between the last two
NewTimes == {6, 10, 11}

\* the events a caller inserts: an empty Output, as the Insert button builds
NewEvents == {Event(t, Output(<<>>)) : t \in NewTimes}

VARIABLES mmap, header, modifications, last, hist, nEdits

vars == <<mmap, header, modifications, last, hist, nEdits>>

\* the record of the latest call: its arguments, what it returned and what
\* it produced (the events of get_lines, the chunks written by save_to_file)
Call(op, act, order, cur, prev, next, res, out) ==
    [op |-> op, act |-> act, order |-> order, cur |-> cur, prev |-> prev,
     next |-> next, res |-> res, out |-> out]

\* what is remembered of a Deletion for the call that repeats it: the store
\* before it (pre) and, when it repeats the call before it, the store before
\* that one (origin)
NoHist == [live |-> FALSE, twice |-> FALSE, pre |-> <<>>, origin |-> <<>>]

\* CastFile::new on a version 2 file
Init ==
    /\ mmap \in Files
    /\ header = [version |-> 2]
    /\ modifications = <<>>
    /\ last = Call("new", Deletion, 0, NoTarget, None, None, "Ok", <<>>)
    /\ hist = NoHist
    /\ nEdits = 0

\* the bits of the significand of an f32
F32Mantissa == 24

RECURSIVE F32Step(_, _)
\* the gap between neighbouring f32 values around n, from the gap q on
F32Step(n, q) == IF n < (2 ^ F32Mantissa) * q THEN q ELSE F32Step(n, 2 * q)

\* file_size as f32: the nearest f32, ties to the even significand
U64AsF32(n) ==
    Bind(LAMBDA q :
            IF 2 * (n % q) < q THEN n - (n % q)
            ELSE IF 2 * (n % q) > q THEN n - (n % q) + q
            ELSE IF ((n - (n % q)) \div q) % 2 = 0 THEN n - (n % q)
            ELSE n - (n % q) + q,
         F32Step(n, 1))

\* byte_pos = (pos * file_size as f32) as usize for pos = k / PosDen
BytePos(k) == (k * U64AsF32(Len(mmap))) \div PosDen

\* the window the caller renders before it issues an edit
Window(k, n) == get_lines(mmap, modifications, BytePos(k), n)

Running == last.res # "Panic"

GetLines ==
    /\ Running
    /\ \E k \in 0..PosDen, n \in 0..MaxN :
          \E r \in {Window(k, n)} :
             last' = Call("get_lines", Deletion, n, EventPositioned(NoEvent, BytePos(k)),
                          None, None, r.res, r.events)
    /\ hist' = NoHist
    /\ UNCHANGED <<mmap, header, modifications, nEdits>>

\* the times of the events a caller asks the order of
OrderTimes == NewTimes \cup {8}

\* get_order at an offset that has a chain, or at offset 0, which has none
GetOrder ==
    /\ Running
    /\ \E byte_location \in DOMAIN modifications \cup {0}, t \in OrderTimes :
          last' = Call("get_order", Deletion, 0,
                       EventPositioned(Event(t, Output(<<>>)), byte_location), None, None,
                       "Ok", <<get_order(modifications, byte_location, Event(t, Output(<<>>)))>>)
    /\ hist' = NoHist
    /\ UNCHANGED <<mmap, header, modifications, nEdits>>

\* save_to_file on a CastFile whose pending edits the save consumes
SaveToFile_ConsumesEdits ==
    /\ Running
    /\ \E r \in {write_modified_file(mmap, header, modifications)} :
          last' = Call("save_to_file", Deletion, 0, NoTarget, None, None, r.res, r.chunks)
    /\ modifications' = <<>>
    /\ hist' = NoHist
    /\ UNCHANGED <<mmap, header, nEdits>>

SaveToFile ==
    /\ Running
    /\ \E r \in {write_modified_file(mmap, header, modifications)} :
          last' = Call("save_to_file", Deletion, 0, NoTarget, None, None, r.res, r.chunks)
    /\ hist' = NoHist
    /\ UNCHANGED <<mmap, header, modifications, nEdits>>

\* the contexts a caller takes from a window: an entry and its neighbours
Prevs(evs, i) == {None} \cup (IF i > 1 THEN {Some(evs[i - 1])} ELSE {})

Nexts(evs, i) == {None} \cup (IF i < Len(evs) THEN {Some(evs[i + 1])} ELSE {})

DoAction(act, order, cur, prev) ==
    \E r \in {action(modifications, act, order, cur, prev)} :
       /\ modifications' = r.mods
       /\ last' = Call("action", act, order, cur, prev, None, r.res, <<>>)
       /\ hist' = IF act.kind # "Deletion" THEN NoHist
                  ELSE IF hist.live /\ last.order = order /\ last.cur = cur
                  THEN [live |-> TRUE, twice |-> TRUE, pre |-> modifications,
                        origin |-> hist.pre]
                  ELSE [live |-> TRUE, twice |-> FALSE, pre |-> modifications,
                        origin |-> modifications]
       /\ nEdits' = nEdits + 1
       /\ UNCHANGED <<mmap, header>>

DoAdvancedAction(act, order, cur, prev, next) ==
    \E r \in {advanced_action(modifications, act, order, cur, prev, next)} :
       /\ modifications' = r.mods
       /\ last' = Call("advanced_action", act, order, cur, prev, next, r.res, <<>>)
       /\ hist' = NoHist
       /\ nEdits' = nEdits + 1
       /\ UNCHANGED <<mmap, header>>

CanEdit == Running /\ nEdits < MaxEdits

ActionAddition ==
    /\ CanEdit
    /\ \E k \in 0..PosDen :
          \E w \in {Window(k, MaxN)} :
             /\ w.res = "Ok"
             /\ \E i \in 1..Len(w.events), order \in 0..MaxOrder, e \in NewEvents :
                   \E prev \in Prevs(w.events, i) :
                      DoAction(Addition(e), order, w.events[i], prev)

\* a Deletion on an entry of the window, or the Deletion just made once more
ActionDeletion ==
    /\ CanEdit
    /\ \/ \E k \in 0..PosDen :
             \E w \in {Window(k, MaxN)} :
                /\ w.res = "Ok"
                /\ \E i \in 1..Len(w.events), order \in 0..MaxOrder :
                      DoAction(Deletion, order, w.events[i], None)
       \/ /\ hist.live
          /\ DoAction(Deletion, last.order, last.cur, None)

ActionModifyData ==
    /\ CanEdit
    /\ \E k \in 0..PosDen :
          \E w \in {Window(k, MaxN)} :
             /\ w.res = "Ok"
             /\ \E i \in 1..Len(w.events), order \in 0..MaxOrder, d \in NewData :
                   DoAction(ModifyData(d), order, w.events[i], None)

AdvancedModify ==
    /\ CanEdit
    /\ \E k \in 0..PosDen :
          \E w \in {Window(k, MaxN)} :
             /\ w.res = "Ok"
             /\ \E i \in 1..Len(w.events), order \in 0..MaxOrder, e \in NewEvents :
                   \E prev \in Prevs(w.events, i), next \in Nexts(w.events, i) :
                      DoAdvancedAction(Modify(e), order, w.events[i], prev, next)

AdvancedSwap ==
    /\ CanEdit
    /\ \E k \in 0..PosDen :
          \E w \in {Window(k, MaxN)} :
             /\ w.res = "Ok"
             /\ \E i \in 1..Len(w.events), j \in 1..Len(w.events) :
                   \E order \in 0..MaxOrder, target_order \in 0..MaxOrder :
                      DoAdvancedAction(Swap(w.events[j], target_order), order,
                                       w.events[i], None, None)

Next ==
    \/ GetLines
    \/ GetOrder
    \/ SaveToFile
    \/ ActionAddition
    \/ ActionDeletion
    \/ ActionModifyData

Spec == Init /\ [][Next]_vars

\* the same session with the composite edits of advanced_action
NextAdvanced ==
    \/ Next
    \/ AdvancedModify
    \/ AdvancedSwap

SpecAdvanced == Init /\ [][NextAdvanced]_vars

\* events with payloads of their own, one for each time a caller inserts at
PayloadEvents ==
    {Event(6, Output(<<"x">>)), Event(10, Output(<<>>)), Event(11, Output(<<BS, "n">>))}

\* an Addition of an event that carries a payload
AdditionWithPayload ==
    /\ CanEdit
    /\ \E k \in 0..PosDen :
          \E w \in {Window(k, MaxN)} :
             /\ w.res = "Ok"
             /\ \E i \in 1..Len(w.events), order \in 0..MaxOrder, e \in PayloadEvents :
                   \E prev \in Prevs(w.events, i) :
                      DoAction(Addition(e), order, w.events[i], prev)

\* a Swap of two entries of the window, also as the edit after the last
\* Addition
SwapAfterAdditions ==
    /\ Running
    /\ nEdits <= MaxEdits
    /\ \E k \in 0..PosDen :
          \E w \in {Window(k, MaxN)} :
             /\ w.res = "Ok"
             /\ \E i \in 1..Len(w.events), j \in 1..Len(w.events) :
                   \E order \in 0..MaxOrder, target_order \in 0..MaxOrder :
                      DoAdvancedAction(Swap(w.events[j], target_order), order,
                                       w.events[i], None, None)

NextSwap ==
    \/ AdditionWithPayload
    \/ SwapAfterAdditions

\* a session of insertions and swaps
SpecSwap == Init /\ [][NextSwap]_vars

\* save_to_file with the path the file was opened from, which the Save dialog
\* offers: File::create truncates the file under the shared mapping. Either
\* the platform refuses to open a mapped file for writing and the call returns
\* the I/O error, or the file is emptied, no byte of the mapping is backed any
\* more, and the first read of the mapping, the header skip of
\* write_modified_file, faults and ends the process.
SaveToOpenedPath ==
    /\ Running
    /\ \/ /\ last' = Call("save_to_file", Deletion, 0, NoTarget, None, None, "IoError", <<>>)
          /\ mmap' = mmap
       \/ /\ last' = Call("save_to_file", Deletion, 0, NoTarget, None, None, "Panic", <<>>)
          /\ mmap' = <<>>
    /\ hist' = NoHist
    /\ UNCHANGED <<header, modifications, nEdits>>

NextSavePath ==
    \/ Next
    \/ SaveToOpenedPath

\* the session with saves to the opened path as well as to other paths
SpecSavePath == Init /\ [][NextSavePath]_vars

\* the longest payload of a line given to the codec, in pieces
MaxPayload == 3

\* the pieces of a payload as it stands in a line: a letter, a comma, a
\* space, an escaped double quote, the escape sequence of a line feed
PayloadPieces == {<<"a">>, <<",">>, <<SP>>, <<BS, DQ>>, <<BS, "n">>}

\* the payloads of up to MaxPayload pieces
Payloads ==
    UNION {{Flatten(p) : p \in [1..n -> PayloadPieces]} : n \in 0..MaxPayload}

\* the event codes of the lines given to the codec
Codes == {"o", "i", "m"}

\* the well-formed event line [t, "c", "text"]
WellFormedLine(t, c, text) ==
    <<"[">> \o FormatNat(t) \o <<",", SP, DQ, c, DQ, ",", SP, DQ>> \o text \o <<DQ, "]">>

\* a session of the codec alone: no file is open
InitCodec ==
    /\ mmap = <<>>
    /\ header = [version |-> 2]
    /\ modifications = <<>>
    /\ last = Call("new", Deletion, 0, NoTarget, None, None, "Ok", <<>>)
    /\ hist = NoHist
    /\ nEdits = 0

\* a line is deserialized, the event serialized, and the text written is
\* deserialized again; each behaviour takes one line
RoundTrip ==
    /\ last.op = "new"
    /\ \E t \in {4, 10}, c \in Codes, text \in Payloads :
          \E parsed \in {DeserializeEvent(WellFormedLine(t, c, text))} :
             \E written \in {IF parsed.ok THEN SerializeEvent(parsed.event) ELSE <<>>} :
                last' = Call("round_trip", Deletion, 0, NoTarget, None, None,
                             IF parsed.ok THEN "Ok" ELSE "DeserializationError",
                             <<[time |-> t, code |-> c, text |-> text, parsed |-> parsed,
                                written |-> written,
                                reparsed |-> IF parsed.ok THEN DeserializeEvent(written)
                                             ELSE DeErr]>>)
    /\ UNCHANGED <<mmap, header, modifications, hist, nEdits>>

NextCodec == RoundTrip

SpecCodec == InitCodec /\ [][NextCodec]_vars

\* the edits of a session that follows the protocol of render_events
MaxProtocolEdits == 3

\* the times of the events inserted in such a session: between the first two
\* events, the second event's own time, and between the last two
ProtocolTimes == {5, 6, 8, 10, 11}

CanEditByProtocol == Running /\ nEdits < MaxProtocolEdits

\* the front of the chain passed as the order of every entry
OrderOf_Front(ev) == 0

\* the order render_events passes: get_order for the entry acted on
OrderOf(ev) == get_order(modifications, ev.byte_location, ev.event)

\* Insert, as render_events issues it: an entry of the window, the entry
\* before it as previous, the order from get_order
ProtocolAddition ==
    /\ CanEditByProtocol
    /\ \E k \in 0..PosDen :
          \E w \in {Window(k, MaxN)} :
             /\ w.res = "Ok"
             /\ \E i \in 2..Len(w.events), t \in ProtocolTimes :
                   DoAction(Addition(Event(t, Output(<<>>))), OrderOf(w.events[i]),
                            w.events[i], Some(w.events[i - 1]))

\* Delete, as render_events issues it
ProtocolDeletion ==
    /\ CanEditByProtocol
    /\ \E k \in 0..PosDen :
          \E w \in {Window(k, MaxN)} :
             /\ w.res = "Ok"
             /\ \E i \in 1..Len(w.events) :
                   DoAction(Deletion, OrderOf(w.events[i]), w.events[i], None)

\* ModifyData on an entry of the window, with the order from get_order
ProtocolModifyData ==
    /\ CanEditByProtocol
    /\ \E k \in 0..PosDen :
          \E w \in {Window(k, MaxN)} :
             /\ w.res = "Ok"
             /\ \E i \in 1..Len(w.events), d \in NewData :
                   DoAction(ModifyData(d), OrderOf(w.events[i]), w.events[i], None)

NextProtocol ==
    \/ ProtocolAddition
    \/ ProtocolDeletion
    \/ ProtocolModifyData

\* a session whose edits follow the protocol of render_events
SpecProtocol == Init /\ [][NextProtocol]_vars

\* advanced_action(Modify) on an entry of the window with its two neighbours
\* as previous and next and the order from get_order
ProtocolModify ==
    /\ CanEditByProtocol
    /\ \E k \in 0..PosDen :
          \E w \in {Window(k, MaxN)} :
             /\ w.res = "Ok"
             /\ \E i \in 2..(Len(w.events) - 1), t \in ProtocolTimes :
                   DoAdvancedAction(Modify(Event(t, Output(<<"x">>))), OrderOf(w.events[i]),
                                    w.events[i], Some(w.events[i - 1]), Some(w.events[i + 1]))

NextProtocolAdvanced ==
    \/ NextProtocol
    \/ ProtocolModify

\* the session by the protocol with Modify
SpecProtocolAdvanced == Init /\ [][NextProtocolAdvanced]_vars

\* the two bytes of a character outside ASCII
ULead == "<C3>"
UCont == "<89>"

\* str::is_char_boundary at the byte index i (0-based)
IsCharBoundary(s, i) == i = 0 \/ i = Len(s) \/ (i < Len(s) /\ s[i + 1] # UCont)

HexDigits == <<"0", "1", "2", "3", "4", "5", "6", "7", "8", "9",
               "a", "b", "c", "d", "e", "f">>

UpperHexDigits == <<"0", "1", "2", "3", "4", "5", "6", "7", "8", "9",
                    "A", "B", "C", "D", "E", "F">>

IsHexDigit(c) == \E i \in 1..16 : HexDigits[i] = c \/ UpperHexDigits[i] = c

\* char::to_digit(16)
HexDigitVal(c) == (CHOOSE i \in 1..16 : HexDigits[i] = c \/ UpperHexDigits[i] = c) - 1

RECURSIVE DigitsPrefixHex(_, _)
\* the value of the first n hex digits of s
DigitsPrefixHex(s, n) ==
    IF n = 0 THEN 0 ELSE 16 * DigitsPrefixHex(s, n - 1) + HexDigitVal(s[n])

\* u8::from_str_radix(src, 16): an empty text and a lone sign are errors, one
\* leading '+' is skipped, every other byte must be a hex digit, and the value
\* must fit eight bits
FromStrRadix16(src) ==
    IF src = <<>> THEN [ok |-> FALSE, val |-> 0]
    ELSE IF Len(src) = 1 /\ src[1] \in {"+", "-"} THEN [ok |-> FALSE, val |-> 0]
    ELSE Bind(LAMBDA digits :
                 IF \E i \in 1..Len(digits) : ~IsHexDigit(digits[i])
                 THEN [ok |-> FALSE, val |-> 0]
                 ELSE IF DigitsPrefixHex(digits, Len(digits)) > 255
                 THEN [ok |-> FALSE, val |-> 0]
                 ELSE [ok |-> TRUE, val |-> DigitsPrefixHex(digits, Len(digits))],
              IF src[1] = "+" THEN Tail(src) ELSE src)

NoColor == [r |-> 0, g |-> 0, b |-> 0]

\* one channel of color_from_hex: &hex[from..to] (0-based) parsed as a byte;
\* a slice that does not start and end on a character boundary panics
HexChannel(hex, from, to) ==
    IF ~IsCharBoundary(hex, from) \/ ~IsCharBoundary(hex, to)
    THEN [res |-> "Panic", val |-> 0]
    ELSE Bind(LAMBDA p : IF p.ok THEN [res |-> "Ok", val |-> p.val]
                         ELSE [res |-> "HexValue", val |-> 0],
              FromStrRadix16(SubSeq(hex, from + 1, to)))

\* Theme::color_from_hex
color_from_hex(hex) ==
    IF hex = <<>> \/ hex[1] # "#" \/ Len(hex) # 7
    THEN [res |-> "HexFormat", color |-> NoColor]
    ELSE Bind(LAMBDA r :
            IF r.res # "Ok" THEN [res |-> r.res, color |-> NoColor]
            ELSE Bind(LAMBDA g :
                    IF g.res # "Ok" THEN [res |-> g.res, color |-> NoColor]
                    ELSE Bind(LAMBDA b :
                            IF b.res # "Ok" THEN [res |-> b.res, color |-> NoColor]
                            ELSE [res |-> "Ok",
                                  color |-> [r |-> r.val, g |-> g.val, b |-> b.val]],
                            HexChannel(hex, 5, 7)),
                    HexChannel(hex, 3, 5)),
            HexChannel(hex, 1, 3))

\* the longest text given to color_from_hex after its first character
MaxHexLen == 6

\* the characters of those texts: hex digits of both cases, a sign, a letter
\* that is no hex digit, a character outside ASCII
HexPieces == {<<"a">>, <<"F">>, <<"+">>, <<"g">>, <<ULead, UCont>>}

\* the texts of up to MaxHexLen pieces after one of the given beginnings
HexTexts(firsts) ==
    UNION {{first \o Flatten(p) : first \in firsts, p \in [1..n -> HexPieces]} :
             n \in 0..MaxHexLen}

\* color_from_hex is given a text; each behaviour takes one
ColorFromHex ==
    /\ last.op = "new"
    /\ \E hex \in HexTexts({<<>>, <<"#">>}) :
          \E c \in {color_from_hex(hex)} :
             last' = Call("color_from_hex", Deletion, 0, NoTarget, None, None, c.res,
                          <<[hex |-> hex, color |-> c.color]>>)
    /\ UNCHANGED <<mmap, header, modifications, hist, nEdits>>

NextHex == ColorFromHex

\* color_from_hex alone
SpecHex == InitCodec /\ [][NextHex]_vars

\* validate_palette with every length from 8 on accepted
validate_palette_EightOrMore(palette) ==
    IF Len(palette) >= 8 THEN "Ok" ELSE "PaletteSize"

\* Theme::validate_palette
validate_palette(palette) ==
    IF Len(palette) \in {8, 16} THEN "Ok" ELSE "PaletteSize"

\* {:02x}
TwoHex(n) == <<HexDigits[(n \div 16) + 1], HexDigits[(n % 16) + 1]>>

\* Theme::color_to_hex
color_to_hex(color) == <<"#">> \o TwoHex(color.r) \o TwoHex(color.g) \o TwoHex(color.b)

\* str::split(':'): the pieces between the colons; an empty text gives one
\* empty piece
SplitColon(s) ==
    Bind(LAMBDA colons :
            [k \in 1..(Len(colons) + 1) |->
                SubSeq(s, (IF k = 1 THEN 0 ELSE colons[k - 1]) + 1,
                          (IF k > Len(colons) THEN Len(s) + 1 ELSE colons[k]) - 1)],
         SortedSeq({i \in 1..Len(s) : s[i] = ":"}))

RECURSIVE JoinFrom(_, _)
\* the texts from the i-th on, a colon before each but the first
JoinFrom(texts, i) ==
    IF i > Len(texts) THEN <<>>
    ELSE (IF i = 1 THEN <<>> ELSE <<":">>) \o texts[i] \o JoinFrom(texts, i + 1)

\* join(":")
JoinColon(texts) == Bind(LAMBDA ts : JoinFrom(ts, 1), texts)

NoTheme == [fg |-> NoColor, bg |-> NoColor, palette |-> <<>>]

RECURSIVE CollectColors(_, _, _)
\* map(color_from_hex).collect(): the colors up to the first error
CollectColors(pieces, i, acc) ==
    IF i > Len(pieces) THEN [res |-> "Ok", palette |-> acc]
    ELSE Bind(LAMBDA c : IF c.res # "Ok" THEN [res |-> c.res, palette |-> <<>>]
                         ELSE Bind(LAMBDA a : CollectColors(pieces, i + 1, a),
                                   Append(acc, c.color)),
              color_from_hex(pieces[i]))

\* impl Deserialize for Theme, from the three texts of the helper
DeserializeTheme(fg, bg, palette) ==
    Bind(LAMBDA f :
        IF f.res # "Ok" THEN [res |-> f.res, theme |-> NoTheme]
        ELSE Bind(LAMBDA b :
            IF b.res # "Ok" THEN [res |-> b.res, theme |-> NoTheme]
            ELSE Bind(LAMBDA p :
                IF p.res # "Ok" THEN [res |-> p.res, theme |-> NoTheme]
                ELSE IF validate_palette(p.palette) # "Ok"
                THEN [res |-> validate_palette(p.palette), theme |-> NoTheme]
                ELSE [res |-> "Ok",
                      theme |-> [fg |-> f.color, bg |-> b.color, palette |-> p.palette]],
                Bind(LAMBDA pieces : CollectColors(pieces, 1, <<>>), SplitColon(palette))),
            color_from_hex(bg)),
        color_from_hex(fg))

NoThemeText == [fg |-> <<>>, bg |-> <<>>, palette |-> <<>>]

\* impl Serialize for Theme: the three texts written
SerializeTheme(theme) ==
    IF validate_palette(theme.palette) # "Ok"
    THEN [res |-> validate_palette(theme.palette), text |-> NoThemeText]
    ELSE [res |-> "Ok",
          text |-> [fg |-> color_to_hex(theme.fg), bg |-> color_to_hex(theme.bg),
                    palette |-> JoinColon([i \in 1..Len(theme.palette) |->
                                              color_to_hex(theme.palette[i])])]]

\* the longest palette given to the Theme codec
MaxPalette == 17

\* color texts: two that color_from_hex accepts and one it rejects
GoodColorTexts == {<<"#", "0", "0", "0", "0", "0", "0">>, <<"#", "a", "F", "0", "9", "b", "C">>}

BadColorText == <<"#", "g", "g", "0", "0", "0", "0">>

\* palette texts: n times the same color, one of them replaced by the color
\* text that is rejected when bad is not 0
PaletteText(n, c, bad) == JoinColon([i \in 1..n |-> IF i = bad THEN BadColorText ELSE c])

\* a Theme is deserialized; each behaviour takes one
DecodeTheme ==
    /\ last.op = "new"
    /\ \E fg \in GoodColorTexts \cup {BadColorText}, bg \in GoodColorTexts \cup {BadColorText},
          n \in 0..MaxPalette, c \in GoodColorTexts :
          \E bad \in 0..n :
             \E text \in {PaletteText(n, c, bad)} :
                \E r \in {DeserializeTheme(fg, bg, text)} :
                   last' = Call("deserialize_theme", Deletion, 0, NoTarget, None, None, r.res,
                                <<[fg |-> fg, bg |-> bg, palette |-> text,
                                   colors |-> n, bad |-> bad, theme |-> r.theme]>>)
    /\ UNCHANGED <<mmap, header, modifications, hist, nEdits>>

\* the colors of the Themes that are serialized
Colors == {NoColor, [r |-> 175, g |-> 9, b |-> 188]}

\* a Theme is serialized; each behaviour takes one
EncodeTheme ==
    /\ last.op = "new"
    /\ \E fg \in Colors, bg \in Colors, n \in 0..MaxPalette, c \in Colors :
          \E r \in {SerializeTheme([fg |-> fg, bg |-> bg, palette |-> [i \in 1..n |-> c]])} :
             last' = Call("serialize_theme", Deletion, 0, NoTarget, None, None, r.res,
                          <<[theme |-> [fg |-> fg, bg |-> bg, palette |-> [i \in 1..n |-> c]],
                             text |-> r.text]>>)
    /\ UNCHANGED <<mmap, header, modifications, hist, nEdits>>

NextTheme ==
    \/ DecodeTheme
    \/ EncodeTheme

\* the Theme codec alone
SpecTheme == InitCodec /\ [][NextTheme]_vars

\* the largest value of a u8
U8Max == 255

\* serde_json::from_slice::<Header>, the object reduced to its version: the
\* text around which JSON whitespace is allowed must be '{', a JSON number
\* without sign, fraction or leading zero that fits the u8 field, and '}'
ParseHeader(slice) ==
    Bind(LAMBDA t :
            IF Len(t) < 3 \/ t[1] # "{" \/ t[Len(t)] # "}"
            THEN [ok |-> FALSE, version |-> 0]
            ELSE Bind(LAMBDA d :
                        IF ~AllDigits(d) \/ (Len(d) > 1 /\ d[1] = "0")
                        THEN [ok |-> FALSE, version |-> 0]
                        ELSE IF DigitsValue(d) > U8Max
                        THEN [ok |-> FALSE, version |-> 0]
                        ELSE [ok |-> TRUE, version |-> DigitsValue(d)],
                      SubSeq(t, 2, Len(t) - 1)),
         Trim(slice))

\* what the system answers to File::open, metadata and Mmap::map
IoOutcomes == {"ok", "open_fails", "metadata_fails", "map_fails"}

NoHeader == [version |-> 0]

\* CastFile::new on a path with these bytes behind it
CastFile_new(io, bytes) ==
    IF io # "ok" THEN [res |-> "Panic", header |-> NoHeader]
    ELSE IF PositionLF(bytes, 0) = -1 THEN [res |-> "Panic", header |-> NoHeader]
    ELSE Bind(LAMBDA h :
                 IF ~h.ok THEN [res |-> "DeserializationError", header |-> NoHeader]
                 ELSE IF h.version # 2 THEN [res |-> "InvalidVersion", header |-> NoHeader]
                 ELSE [res |-> "Ok", header |-> [version |-> h.version]],
              ParseHeader(Slice(bytes, 0, PositionLF(bytes, 0))))

\* the versions of the header lines of the files that are opened
Versions == {0, 1, 2, 3, 255, 256, 300}

\* first lines that are no header: a cut-off object, a number with a leading
\* zero, an array, a word, nothing
NoHeaderTexts == {<<"{", "2">>, <<"{", "0", "2", "}">>, <<"[", "2", "]">>, <<"x">>, <<>>}

\* what follows the first line: nothing at all (no line terminator in the
\* file), a terminator, a terminator and an event line
Bodies ==
    {<<>>, <<LF>>, <<CR, LF>>, <<LF>> \o EventLine(4, "o", <<"a">>) \o <<LF>>,
     <<LF>> \o EventLine(4, "o", <<"a">>)}

\* no file has been opened yet
InitClosed ==
    /\ mmap = <<>>
    /\ header = NoHeader
    /\ modifications = <<>>
    /\ last = Call("start", Deletion, 0, NoTarget, None, None, "Ok", <<>>)
    /\ hist = NoHist
    /\ nEdits = 0

\* a file is opened
Open ==
    /\ last.op = "start"
    /\ \E io \in IoOutcomes, body \in Bodies,
          first \in {[text |-> HeaderJson([version |-> v]), version |-> v] : v \in Versions}
                      \cup {[text |-> t, version |-> -1] : t \in NoHeaderTexts} :
          \E r \in {CastFile_new(io, first.text \o body)} :
             /\ last' = Call("new", Deletion, 0, NoTarget, None, None, r.res,
                             <<[io |-> io, bytes |-> first.text \o body,
                                version |-> first.version, terminated |-> body # <<>>]>>)
             /\ mmap' = IF r.res = "Ok" THEN first.text \o body ELSE mmap
             /\ header' = r.header
    /\ UNCHANGED <<modifications, hist, nEdits>>

NextOpen == Open

SpecOpen == InitClosed /\ [][NextOpen]_vars

\* ------------------------------------------------------------- lexer
\* the time, code and payload fields of the lines given to the lexer, bare or
\* with spaces around them; the payloads: empty, a letter, a comma between two
\* letters, an escaped double quote, a backslash and the letter n
LexTimes == {<<"4">>, <<SP, "4", SP>>}

LexCodes == {<<DQ, "o", DQ>>, <<SP, DQ, "o", DQ, SP>>}

LexPayloads ==
    {<<DQ, DQ>>, <<DQ, "a", DQ>>, <<DQ, "a", ",", "b", DQ>>, <<DQ, BS, DQ, DQ>>,
     <<SP, DQ, "a", DQ, SP>>, <<DQ, "a", BS, "n", "b", DQ>>}

\* the field lists of the lines: three fields, or one, two or four fields,
\* among them lists with an empty field
LexFields(t, c, p) ==
    {<<t, c, p>>, <<t>>, <<t, c>>, <<t, <<>>, c, p>>, <<t, c, p, <<>>>>, <<t, c, p, p>>}

RECURSIVE JoinComma(_, _)
\* the fields from the i-th on, a comma between two fields
JoinComma(fields, i) ==
    IF i > Len(fields) THEN <<>>
    ELSE IF i = Len(fields) THEN fields[i]
    ELSE fields[i] \o <<",">> \o JoinComma(fields, i + 1)

\* the line of the fields with both brackets, or without one of them
LexLine(fields, open, close) ==
    (IF open THEN <<"[">> ELSE <<>>) \o JoinComma(fields, 1)
        \o (IF close THEN <<"]">> ELSE <<>>)

\* the string branch of Deserialize for Event on one line; each behaviour
\* takes one line
Lex ==
    /\ last.op = "new"
    /\ \E t \in LexTimes, c \in LexCodes, p \in LexPayloads :
          \E fields \in LexFields(t, c, p), open \in BOOLEAN, close \in BOOLEAN :
             \E line \in {LexLine(fields, open, close)} :
                \E parsed \in {DeserializeString(line)} :
                   last' = Call("lex", Deletion, 0, NoTarget, None, None,
                                IF parsed.ok THEN "Ok" ELSE "DeserializationError",
                                <<[fields |-> fields, open |-> open, close |-> close,
                                   line |-> line, parsed |-> parsed]>>)
    /\ UNCHANGED <<mmap, header, modifications, hist, nEdits>>

NextLexer == Lex

SpecLexer == InitCodec /\ [][NextLexer]_vars

\* ------------------------------------------------------ the two paths
\* payloads of Resize lines: well-formed, and without a column count, a row
\* count or a separator
ResizePayloads == {<<"8", "x", "2">>, <<"8", "x">>, <<"x", "2">>, <<"8", "2">>, <<"a", "x", "2">>}

\* the lines given to both paths: code and payload
PathLines ==
    {<<c, text>> : c \in Codes, text \in Payloads}
        \cup {<<"r", text>> : text \in ResizePayloads}

\* one line [t, "c", "text"] is deserialized as a JSON array, as
\* parse_events does, and its text is deserialized by the string branch;
\* each behaviour takes one line
ParseBothPaths ==
    /\ last.op = "new"
    /\ \E t \in {4, 10}, l \in PathLines :
          \E line \in {WellFormedLine(t, l[1], l[2])} :
             \E array \in {DeserializeEvent(line)}, string \in {DeserializeString(line)} :
                last' = Call("parse_paths", Deletion, 0, NoTarget, None, None,
                             IF array.ok THEN "Ok" ELSE "DeserializationError",
                             <<[time |-> t, code |-> l[1], text |-> l[2], line |-> line,
                                array |-> array, string |-> string]>>)
    /\ UNCHANGED <<mmap, header, modifications, hist, nEdits>>

NextPaths == ParseBothPaths

SpecPaths == InitCodec /\ [][NextPaths]_vars

\* how far around 2^24 bytes the sizes of the large recordings spread
SizeSpread == 30

\* sizes of recordings around the size from which f32 no longer holds every
\* integer
LargeSizes == ((2 ^ F32Mantissa) - SizeSpread)..((2 ^ F32Mantissa) + SizeSpread)

\* a large recording just opened; it is given by its size alone, its bytes
\* are not represented
InitLarge ==
    /\ mmap = <<>>
    /\ header = [version |-> 2]
    /\ modifications = <<>>
    /\ last = Call("new", Deletion, 0, NoTarget, None, None, "Ok", <<>>)
    /\ hist = NoHist
    /\ nEdits = 0

\* get_lines(1.0, n) on a large recording, up to its first slice of the
\* mapping, mmap[byte_pos..]: a start past the end of the mapping panics
SeekEndOfLargeFile ==
    /\ Running
    /\ \E file_size \in LargeSizes, n \in 0..MaxN :
          \E byte_pos \in {U64AsF32(file_size)} :
             last' = Call("get_lines_seek", Deletion, n, EventPositioned(NoEvent, byte_pos),
                          None, None,
                          IF byte_pos > file_size THEN "Panic" ELSE "Ok", <<file_size>>)
    /\ UNCHANGED <<mmap, header, modifications, hist, nEdits>>

NextLarge == SeekEndOfLargeFile

SpecLarge == InitLarge /\ [][NextLarge]_vars

\* ---------------------------------------------------------------------------
\* Properties
\* ---------------------------------------------------------------------------

\* the inserted events of the chain at an offset, empty when there is no chain
ChainAt(mods, loc) == IF loc \in DOMAIN mods THEN mods[loc].modifications ELSE <<>>

\* the deletion flag of the chain at an offset, false when there is no chain
DeletedAt(mods, loc) == loc \in DOMAIN mods /\ mods[loc].original_deleted

\* every chain other than the one at loc is what it was before the step
OtherChainsUnchanged(loc) ==
    /\ DOMAIN modifications \subseteq DOMAIN modifications'
    /\ DOMAIN modifications' \subseteq DOMAIN modifications \cup {loc}
    /\ \A k \in DOMAIN modifications : k # loc => modifications'[k] = modifications[k]

\* C1: an Addition given a previous event returns Ok and inserts the event at
\* the clamped order of the chain at the current event's offset exactly when
\* previous time < event time < current time, both strict; otherwise it
\* returns TimingError and the inserted events of every chain stay as they were.
C1_AdditionTiming ==
    [][ (last'.op = "action" /\ last'.act.kind = "Addition" /\ last'.prev # None) =>
          LET e == last'.act.event
              loc == last'.cur.byte_location
              old == ChainAt(modifications, loc)
              strict == /\ last'.prev[1].event.time < e.time
                        /\ e.time < last'.cur.event.time
          IN /\ (last'.res = "Ok") <=> strict
             /\ strict =>
                  ChainAt(modifications', loc)
                     = InsertAt(old, Min(last'.order, Len(old)), e)
             /\ ~strict =>
                  /\ last'.res = "TimingError"
                  /\ \A k \in DOMAIN modifications' :
                        ChainAt(modifications', k) = ChainAt(modifications, k)
             /\ OtherChainsUnchanged(loc) ]_vars

\* an Addition at a time strictly between its neighbours has been accepted and
\* the event stands in the chain at the current event's offset
C1_Witness ==
    /\ last.op = "action" /\ last.act.kind = "Addition" /\ last.prev # None
    /\ last.prev[1].event.time < last.act.event.time
    /\ last.act.event.time < last.cur.event.time
    /\ last.res = "Ok"
    /\ \E i \in 1..Len(ChainAt(modifications, last.cur.byte_location)) :
          ChainAt(modifications, last.cur.byte_location)[i] = last.act.event

\* C8: a Deletion returns Ok; when the order is an index of the chain at the
\* current event's offset it removes that one insertion and keeps the deletion
\* flag, otherwise it flips the deletion flag and keeps the insertions; the
\* chains at other offsets stay as they were.
C8_DeletionEffect ==
    [][ (last'.op = "action" /\ last'.act.kind = "Deletion") =>
          LET loc == last'.cur.byte_location
              old == ChainAt(modifications, loc)
              new == ChainAt(modifications', loc)
              o == last'.order
          IN /\ last'.res = "Ok"
             /\ IF o < Len(old)
                THEN /\ Len(new) = Len(old) - 1
                     /\ \A i \in 1..Len(new) :
                           new[i] = IF i <= o THEN old[i] ELSE old[i + 1]
                     /\ DeletedAt(modifications', loc) = DeletedAt(modifications, loc)
                ELSE /\ new = old
                     /\ DeletedAt(modifications', loc) = ~DeletedAt(modifications, loc)
             /\ OtherChainsUnchanged(loc) ]_vars

\* a Deletion whose order is an index of the chain has removed one insertion
C8_Witness ==
    /\ last.op = "action" /\ last.act.kind = "Deletion" /\ last.res = "Ok"
    /\ hist.live
    /\ last.order < Len(ChainAt(hist.pre, last.cur.byte_location))
    /\ Len(ChainAt(modifications, last.cur.byte_location))
         = Len(ChainAt(hist.pre, last.cur.byte_location)) - 1
    /\ DeletedAt(modifications, last.cur.byte_location)
         = DeletedAt(hist.pre, last.cur.byte_location)

\* C10: a ModifyData whose order is an index of the chain at the current
\* event's offset returns Ok and replaces the data of that one insertion,
\* keeping its time and every other event; with the order past the end it
\* returns ModificationError and no event of any chain changes.
C10_ModifyDataEffect ==
    [][ (last'.op = "action" /\ last'.act.kind = "ModifyData") =>
          LET loc == last'.cur.byte_location
              old == ChainAt(modifications, loc)
              new == ChainAt(modifications', loc)
              o == last'.order
          IN /\ IF o < Len(old)
                THEN /\ last'.res = "Ok"
                     /\ Len(new) = Len(old)
                     /\ \A i \in 1..Len(new) :
                           new[i] = IF i = o + 1
                                    THEN [time |-> old[i].time, data |-> last'.act.data]
                                    ELSE old[i]
                ELSE /\ last'.res = "ModificationError"
                     /\ new = old
             /\ DeletedAt(modifications', loc) = DeletedAt(modifications, loc)
             /\ OtherChainsUnchanged(loc) ]_vars

\* a ModifyData on an existing insertion has been accepted and the insertion
\* carries the new data under its old time
C10_Witness ==
    /\ last.op = "action" /\ last.act.kind = "ModifyData" /\ last.res = "Ok"
    /\ last.order < Len(ChainAt(modifications, last.cur.byte_location))
    /\ ChainAt(modifications, last.cur.byte_location)[last.order + 1].data = last.act.data
    /\ ChainAt(modifications, last.cur.byte_location)[last.order + 1].time \in NewTimes
    /\ last.act.data # Output(<<>>)

RECURSIVE BodyLines(_, _)
\* the original lines from an offset on, each with its offset and its bytes up
\* to and including its LF
BodyLines(mm, from) ==
    IF from >= Len(mm) THEN <<>>
    ELSE Bind(LAMBDA e : <<[at |-> from, bytes |-> Slice(mm, from, e)]>> \o BodyLines(mm, e),
              find_next_newline(mm, from))

\* the bytes of the chunks of one kind, in the order written
BytesOfKind(chunks, kind) == ChunkBytes(SelectSeq(chunks, LAMBDA c : c.kind = kind))

\* the original lines that are not marked deleted, byte for byte and in order
KeptOriginal(mm, mods, from, to) ==
    Flatten([i \in 1..Len(SelectSeq(BodyLines(mm, from),
                                    LAMBDA l : l.at < to /\ ~DeletedAt(mods, l.at))) |->
               SelectSeq(BodyLines(mm, from),
                         LAMBDA l : l.at < to /\ ~DeletedAt(mods, l.at))[i].bytes])

\* C2: the body written by save_to_file holds every original line that is not
\* marked deleted, byte for byte and in the original order, and no byte of a
\* line that is marked deleted.
C2_SavePassesOriginalLines ==
    last.op = "save_to_file" =>
        /\ last.res = "Ok"
        /\ BytesOfKind(last.out, "orig")
             = KeptOriginal(mmap, modifications, HeaderSkip(mmap), Len(mmap))

\* the offset starts an original line of the body
IsLineStart(mm, at) == at >= HeaderSkip(mm) /\ at < Len(mm) /\ mm[at] = LF

\* every insertion of every chain, chains by ascending offset, each chain in
\* its own order
AllInsertions(mods) ==
    Flatten([i \in 1..Len(SortedSeq(DOMAIN mods)) |->
               [j \in 1..Len(mods[SortedSeq(DOMAIN mods)[i]].modifications) |->
                   [at |-> SortedSeq(DOMAIN mods)[i], idx |-> j - 1]]])

\* C3: save_to_file writes every insertion of every chain exactly once, in
\* chain order, as a line of its own that stands right before the place of the
\* original line at the chain's offset, that line being written or skipped.
C3_SaveWritesEveryInsertion ==
    last.op = "save_to_file" =>
        /\ last.res = "Ok"
        /\ [i \in 1..Len(SelectSeq(last.out, LAMBDA c : c.kind = "ins")) |->
               [at |-> SelectSeq(last.out, LAMBDA c : c.kind = "ins")[i].at,
                idx |-> SelectSeq(last.out, LAMBDA c : c.kind = "ins")[i].idx]]
             = AllInsertions(modifications)
        /\ \A i \in 1..Len(last.out) :
              last.out[i].kind = "ins" =>
                 /\ last.out[i].bytes
                      = serialize_event(modifications[last.out[i].at].modifications[last.out[i].idx + 1])
                 /\ last.out[i].bytes[Len(last.out[i].bytes)] = LF
                 /\ \A j \in 1..(Len(last.out[i].bytes) - 1) : last.out[i].bytes[j] # LF
                 /\ last.out[i - 1].bytes[Len(last.out[i - 1].bytes)] = LF
                 /\ BytesOfKind(SubSeq(last.out, 1, i), "orig")
                      = KeptOriginal(mmap, modifications, HeaderSkip(mmap), last.out[i].at)
                 /\ \/ IsLineStart(mmap, last.out[i].at)
                    \/ last.out[i].at = Len(mmap)

\* the events of a sequence of positioned events
EventsOf(evs) == [i \in 1..Len(evs) |-> evs[i].event]

\* what one original line contributes to a window: the insertions of the chain
\* at its offset, then its own event unless it does not parse or is deleted
LineEntries(mm, mods, l) ==
    PositionEvents(ChainAt(mods, l.at), l.at)
        \o (IF DeletedAt(mods, l.at) THEN <<>>
            ELSE ParsedOrNone(mm, l.at, l.at + Len(l.bytes)))

\* line by line, the entries of the window [from, to)
WindowEntries(mm, mods, from, to) ==
    Flatten([i \in 1..Len(SelectSeq(BodyLines(mm, from), LAMBDA l : l.at < to)) |->
               LineEntries(mm, mods, SelectSeq(BodyLines(mm, from), LAMBDA l : l.at < to)[i])])

\* C5: get_lines returns an original line of the window exactly when it parses
\* and is not marked deleted; a deleted line alone is left out, the insertions
\* of its chain and the other lines of the window are returned.
C5_OriginalReturnedIffKept ==
    (last.op = "get_lines" /\ last.res = "Ok") =>
        EventsOf(last.out)
          = EventsOf(WindowEntries(mmap, modifications,
                                   WindowBounds(mmap, last.cur.byte_location, last.order)[1],
                                   WindowBounds(mmap, last.cur.byte_location, last.order)[2]))

\* all events of a file under a store, as get_lines returns them from the top
AllLines(mm, mods) == get_lines(mm, mods, 0, Len(mm))

\* C6: the events read back from the file written by save_to_file are, in
\* times, data and order, the events get_lines returns over the whole body of
\* the edited file.
C6_SavedFileReadsAsEdited ==
    (last.op = "save_to_file" /\ last.res = "Ok") =>
        /\ AllLines(mmap, modifications).res = "Ok"
        /\ AllLines(ChunkBytes(last.out), <<>>).res = "Ok"
        /\ EventsOf(AllLines(ChunkBytes(last.out), <<>>).events)
             = EventsOf(AllLines(mmap, modifications).events)

\* C7: every inserted line of the saved file is the bracket form of its event:
\* it starts with [ and ends with ] before its LF.
C7_InsertedLineIsBracketForm ==
    last.op = "save_to_file" =>
        \A i \in 1..Len(last.out) :
           last.out[i].kind = "ins" =>
              /\ Len(last.out[i].bytes) >= 3
              /\ last.out[i].bytes[1] = "["
              /\ last.out[i].bytes[Len(last.out[i].bytes) - 1] = "]"
              /\ last.out[i].bytes[Len(last.out[i].bytes)] = LF

\* C9: after the same Deletion with an order at or past the chain length has
\* been called twice in a row, the deletion flag at the event's offset is what
\* it was before the first call, and get_lines and save_to_file give what they
\* gave before the first call.
C9_DoubleDeletionRestores ==
    (hist.twice /\ last.order >= Len(ChainAt(hist.origin, last.cur.byte_location))) =>
        /\ DeletedAt(modifications, last.cur.byte_location)
             = DeletedAt(hist.origin, last.cur.byte_location)
        /\ \A k \in 0..PosDen, n \in 0..MaxN :
              get_lines(mmap, modifications, BytePos(k), n)
                = get_lines(mmap, hist.origin, BytePos(k), n)
        /\ write_modified_file(mmap, header, modifications).res
             = write_modified_file(mmap, header, hist.origin).res
        /\ ChunkBytes(write_modified_file(mmap, header, modifications).chunks)
             = ChunkBytes(write_modified_file(mmap, header, hist.origin).chunks)

\* the entries of a result that carry one offset
EntriesAt(evs, at) == SelectSeq(evs, LAMBDA e : e.byte_location = at)

\* the event get_lines parses from the bytes at an offset up to the next LF
OriginalAt(mm, at) == ParsedOrNone(mm, at, find_next_newline(mm, at))

\* C4: in a result of get_lines the offsets never decrease, and for every
\* chain of the window its insertions stand together, in chain order, under the
\* chain's offset, before the event of the original line at that offset when
\* that event is there.
C4_GetLinesOrdering ==
    (last.op = "get_lines" /\ last.res = "Ok") =>
        /\ \A i \in 1..(Len(last.out) - 1) :
              last.out[i].byte_location <= last.out[i + 1].byte_location
        /\ \A at \in DOMAIN modifications :
              (/\ WindowBounds(mmap, last.cur.byte_location, last.order)[1] <= at
               /\ at < WindowBounds(mmap, last.cur.byte_location, last.order)[2]) =>
                 /\ Len(EntriesAt(last.out, at)) >= Len(modifications[at].modifications)
                 /\ \A j \in 1..Len(modifications[at].modifications) :
                       EntriesAt(last.out, at)[j].event = modifications[at].modifications[j]
                 /\ SubSeq(EntriesAt(last.out, at),
                           Len(modifications[at].modifications) + 1,
                           Len(EntriesAt(last.out, at)))
                      \in {<<>>, OriginalAt(mmap, at)}

\* every chain holds after the step the insertions and the deletion flag it
\* held before it
ChainsUnchanged ==
    \A k \in DOMAIN modifications \cup DOMAIN modifications' :
       /\ ChainAt(modifications', k) = ChainAt(modifications, k)
       /\ DeletedAt(modifications', k) = DeletedAt(modifications, k)

\* C11: when action or advanced_action returns TimingError, the events of the
\* whole file as get_lines gives them, the insertions of every chain and every
\* deletion flag are what they were before the call.
C11_TimingErrorChangesNothing ==
    [][ (last'.op \in {"action", "advanced_action"} /\ last'.res = "TimingError") =>
          /\ ChainsUnchanged
          /\ AllLines(mmap, modifications') = AllLines(mmap, modifications) ]_vars

\* C12: an Addition without a previous event, and a Modify without a previous
\* or without a next event, return UnverifiableTime, and no insertion is added
\* or removed and no deletion flag is flipped.
C12_MissingContextRejected ==
    [][ (\/ /\ last'.op = "action"
            /\ last'.act.kind = "Addition"
            /\ last'.prev = None
         \/ /\ last'.op = "advanced_action"
            /\ last'.act.kind = "Modify"
            /\ (last'.prev = None \/ last'.next = None)) =>
          /\ last'.res = "UnverifiableTime"
          /\ ChainsUnchanged ]_vars

\* a Modify without a previous event, aimed at an insertion that stands in its
\* chain, has been rejected and the insertion is still there
C12_Witness ==
    /\ last.op = "advanced_action" /\ last.act.kind = "Modify"
    /\ last.prev = None /\ last.next # None
    /\ last.res = "UnverifiableTime"
    /\ last.order < Len(ChainAt(modifications, last.cur.byte_location))

\* the bytes of a file after the LF that ends its first line
AfterFirstLine(mm) ==
    SubSeq(mm, (CHOOSE i \in 1..Len(mm) : mm[i] = LF /\ \A j \in 1..(i - 1) : mm[j] # LF) + 1,
           Len(mm))

BodyStart(mm) == Len(mm) - Len(AfterFirstLine(mm))

\* C14: get_lines(0.0, n) with n >= 1 starts right after the header line: no
\* entry lies before that offset, and the first entry is the first insertion
\* anchored at the first event line or, without one, the event of the first
\* event line (a line that is well formed and not marked deleted).
C14_WindowStartsAfterHeader ==
    (/\ last.op = "get_lines" /\ last.res = "Ok"
     /\ last.cur.byte_location = 0 /\ last.order >= 1) =>
        /\ \A i \in 1..Len(last.out) : last.out[i].byte_location >= BodyStart(mmap)
        /\ IF ChainAt(modifications, BodyStart(mmap)) # <<>>
           THEN /\ last.out # <<>>
                /\ last.out[1] = EventPositioned(ChainAt(modifications, BodyStart(mmap))[1],
                                                 BodyStart(mmap))
           ELSE (/\ ~DeletedAt(modifications, BodyStart(mmap))
                 /\ OriginalAt(mmap, BodyStart(mmap)) # <<>>) =>
                    /\ last.out # <<>>
                    /\ last.out[1] = OriginalAt(mmap, BodyStart(mmap))[1]

\* s is what is left of t after some of its first elements
IsSuffix(s, t) == Len(s) <= Len(t) /\ s = SubSeq(t, Len(t) - Len(s) + 1, Len(t))

\* C15: get_lines(1.0, n) returns Ok for every n, on a recording of any size,
\* and the events it returns are the last events of the whole file as
\* get_lines gives them.
C15_EndOfFileWindow ==
    /\ (last.op = "get_lines" /\ last.cur.byte_location = Len(mmap)) =>
          /\ last.res = "Ok"
          /\ IsSuffix(last.out, AllLines(mmap, modifications).events)
    /\ last.op = "get_lines_seek" => last.res = "Ok"

\* the original lines of the window of the last get_lines call
WindowLines ==
    SelectSeq(BodyLines(mmap, WindowBounds(mmap, last.cur.byte_location, last.order)[1]),
              LAMBDA l : l.at < WindowBounds(mmap, last.cur.byte_location, last.order)[2])

\* C16: get_lines returns Ok whatever the lines of the window hold, and a
\* corrupt line costs that line alone: every line of the window that parses
\* on its own and is not deleted, and every insertion of a chain at a line of
\* the window, is among the events returned.
C16_PerLineRecovery ==
    last.op = "get_lines" =>
        /\ last.res = "Ok"
        /\ \A i \in 1..Len(WindowLines) :
              /\ \A j \in 1..Len(ChainAt(modifications, WindowLines[i].at)) :
                    \E m \in 1..Len(last.out) :
                       last.out[m].event = ChainAt(modifications, WindowLines[i].at)[j]
              /\ (/\ ~DeletedAt(modifications, WindowLines[i].at)
                  /\ ParsedOrNone(mmap, WindowLines[i].at,
                                  WindowLines[i].at + Len(WindowLines[i].bytes)) # <<>>) =>
                    \E m \in 1..Len(last.out) :
                       last.out[m].event
                         = ParsedOrNone(mmap, WindowLines[i].at,
                                        WindowLines[i].at + Len(WindowLines[i].bytes))[1].event

InsertedAt(mods, ev, order) ==
    /\ order < Len(ChainAt(mods, ev.byte_location))
    /\ ChainAt(mods, ev.byte_location)[order + 1] = ev.event

C19_MappingNeverChanges == [][mmap' = mmap]_vars

\* the text a payload stands for once its escape sequences are resolved
Unescaped(text) == ParseJsonStr(text \o <<DQ>>, 1, <<>>).str

\* C20: a well-formed line [t, "c", "text"] deserializes to an event with the
\* line's time, code and payload text (as written in the line, or with its
\* escape sequences resolved), and the serialized event reads back as an
\* event with the same time, code and payload text.
C20_CodecRoundTrip ==
    last.op = "round_trip" =>
        /\ last.out[1].parsed.ok
        /\ last.out[1].parsed.event.time = last.out[1].time
        /\ last.out[1].parsed.event.data.code = last.out[1].code
        /\ last.out[1].parsed.event.data.text
              \in {last.out[1].text, Unescaped(last.out[1].text)}
        /\ last.out[1].reparsed.ok
        /\ last.out[1].reparsed.event = last.out[1].parsed.event

\* the event of an element of a get_lines result is an insertion of the chain
\* at the element's offset
IsInsertion(mods, ev) ==
    \E j \in 1..Len(ChainAt(mods, ev.byte_location)) :
       ChainAt(mods, ev.byte_location)[j] = ev.event

\* C28: every element get_lines returns carries the offset of the first byte
\* of a line of the original file, and an element read from the original
\* bytes is the event of the line that starts at its offset; CR LF line ends
\* and unparseable lines included.
C28_ByteLocationIsLineStart ==
    (last.op = "get_lines" /\ last.res = "Ok") =>
        \A i \in 1..Len(last.out) :
           /\ IsLineStart(mmap, last.out[i].byte_location)
           /\ ~IsInsertion(modifications, last.out[i]) =>
                 OriginalAt(mmap, last.out[i].byte_location) = <<last.out[i]>>

\* C29: in every state reached by edits on entries of get_lines results,
\* get_lines at every position and length and save_to_file return a result:
\* neither merge walk takes a slice whose start lies past its end.
C29_MergeWalksReturn ==
    /\ last.op \in {"get_lines", "save_to_file"} => last.res # "Panic"
    /\ \A k \in 0..PosDen, n \in 0..MaxN : Window(k, n).res # "Panic"
    /\ write_modified_file(mmap, header, modifications).res # "Panic"

\* the positions of the store whose insertion carries the payload d
PayloadPositions(mods, d) ==
    {p \in UNION {{<<k, j>> : j \in 1..Len(ChainAt(mods, k))} : k \in DOMAIN mods} :
        ChainAt(mods, p[1])[p[2]].data = d}

\* the payloads of the insertions of a store
PayloadsOf(mods) ==
    UNION {{ChainAt(mods, k)[j].data : j \in 1..Len(ChainAt(mods, k))} : k \in DOMAIN mods}

\* C30: a Swap one of whose two positions holds no insertion returns
\* ModificationError and changes no payload; a Swap that returns Ok leaves
\* every payload as many times in the store as before.
C30_SwapAllOrNothing ==
    [][ (last'.op = "advanced_action" /\ last'.act.kind = "Swap") =>
          /\ (\/ last'.order >= Len(ChainAt(modifications, last'.cur.byte_location))
              \/ last'.act.target_order
                   >= Len(ChainAt(modifications, last'.act.target.byte_location))) =>
                /\ last'.res = "ModificationError"
                /\ ChainsUnchanged
          /\ last'.res = "Ok" =>
                \A d \in PayloadsOf(modifications) \cup PayloadsOf(modifications') :
                   Cardinality(PayloadPositions(modifications', d))
                     = Cardinality(PayloadPositions(modifications, d)) ]_vars

\* the times of a sequence of positioned events increase strictly
StrictlyIncreasing(evs) ==
    \A i \in 1..(Len(evs) - 1) : evs[i].event.time < evs[i + 1].event.time

\* C25: after edits that follow the protocol, every window get_lines returns
\* is strictly increasing in time, and every insertion of the chain at an
\* offset is earlier than the original line at that offset.
C25_TimesStayOrdered ==
    /\ \A k \in 0..PosDen, n \in 0..MaxN :
          Window(k, n).res = "Ok" => StrictlyIncreasing(Window(k, n).events)
    /\ \A at \in DOMAIN modifications :
          OriginalAt(mmap, at) # <<>> =>
             \A j \in 1..Len(ChainAt(modifications, at)) :
                ChainAt(modifications, at)[j].time < OriginalAt(mmap, at)[1].event.time

\* three edits by the protocol have left a chain of two insertions and a
\* deleted original line, and get_lines returns the whole file
C25_Witness ==
    /\ last.op = "action"
    /\ last.res = "Ok"
    /\ nEdits = MaxProtocolEdits
    /\ \E at \in DOMAIN modifications : Len(ChainAt(modifications, at)) >= 2
    /\ \E at \in DOMAIN modifications : DeletedAt(modifications, at)
    /\ AllLines(mmap, modifications).res = "Ok"
    /\ Len(AllLines(mmap, modifications).events) >= 4

\* a sequence of positioned events holds ev
Holds(evs, ev) == \E i \in 1..Len(evs) : evs[i] = ev

\* evs without its first element equal to ev
WithoutFirst(evs, ev) ==
    IF ~Holds(evs, ev) THEN evs
    ELSE Bind(LAMBDA i : SubSeq(evs, 1, i - 1) \o SubSeq(evs, i + 1, Len(evs)),
              CHOOSE i \in 1..Len(evs) : evs[i] = ev /\ \A j \in 1..(i - 1) : evs[j] # ev)

\* C27: a Deletion of an entry ev of a get_lines result, with the order
\* get_order gives for ev, returns Ok, and every window that held ev holds
\* afterwards what it held before with only ev removed; for an original line
\* the deleted mark of its offset is set and no chain changes.
C27_DeletionRemovesExactlyTheEntry ==
    [][ (/\ last'.op = "action"
         /\ last'.act.kind = "Deletion"
         /\ last'.order = get_order(modifications, last'.cur.byte_location, last'.cur.event)) =>
          /\ last'.res = "Ok"
          /\ \A k \in 0..PosDen, n \in 0..MaxN :
                (Window(k, n).res = "Ok" /\ Holds(Window(k, n).events, last'.cur)) =>
                   /\ get_lines(mmap, modifications', BytePos(k), n).res = "Ok"
                   /\ get_lines(mmap, modifications', BytePos(k), n).events
                        = WithoutFirst(Window(k, n).events, last'.cur)
          /\ ~IsInsertion(modifications, last'.cur) =>
                /\ DeletedAt(modifications', last'.cur.byte_location)
                /\ \A at \in DOMAIN modifications' :
                      ChainAt(modifications', at) = ChainAt(modifications, at) ]_vars

\* the place of the first element of evs equal to ev, 0 when there is none
PlaceOf(evs, ev) ==
    IF ~Holds(evs, ev) THEN 0
    ELSE CHOOSE i \in 1..Len(evs) : evs[i] = ev /\ \A j \in 1..(i - 1) : evs[j] # ev

\* C26: a successful Modify(e) of an entry, given with its two neighbours in
\* the sequence and the order from get_order, leaves the sequence of the whole
\* file as it was with e in the place of the entry, and ordered by time;
\* whether next is anchored at another offset or in the chain of the entry.
C26_ModifyReplacesInPlace ==
    [][ (/\ last'.op = "advanced_action"
         /\ last'.act.kind = "Modify"
         /\ last'.res = "Ok"
         /\ AllLines(mmap, modifications).res = "Ok"
         /\ PlaceOf(AllLines(mmap, modifications).events, last'.cur) > 0) =>
          /\ AllLines(mmap, modifications').res = "Ok"
          /\ EventsOf(AllLines(mmap, modifications').events)
               = [EventsOf(AllLines(mmap, modifications).events)
                    EXCEPT ![PlaceOf(AllLines(mmap, modifications).events, last'.cur)]
                              = last'.act.event]
          /\ StrictlyIncreasing(AllLines(mmap, modifications').events) ]_vars

\* '#' followed by exactly six hexadecimal digits
IsHexColorText(hex) ==
    /\ Len(hex) = 7
    /\ hex[1] = "#"
    /\ \A i \in 2..7 : IsHexDigit(hex[i])

\* C24: color_from_hex returns a color exactly for '#' and six hexadecimal
\* digits, with the values of the three pairs of digits as R, G and B; for
\* every other text it returns a format or a value error.
C24_ColorFromHex ==
    last.op = "color_from_hex" =>
        IF IsHexColorText(last.out[1].hex)
        THEN /\ last.res = "Ok"
             /\ last.out[1].color
                  = [r |-> 16 * HexDigitVal(last.out[1].hex[2]) + HexDigitVal(last.out[1].hex[3]),
                     g |-> 16 * HexDigitVal(last.out[1].hex[4]) + HexDigitVal(last.out[1].hex[5]),
                     b |-> 16 * HexDigitVal(last.out[1].hex[6]) + HexDigitVal(last.out[1].hex[7])]
        ELSE last.res \in {"HexFormat", "HexValue"}

C21_OpenChecksHeader ==
    (last.op = "new" /\ last.out # <<>> /\ last.out[1].io = "ok" /\ last.out[1].terminated) =>
        /\ (last.out[1].version >= 0 /\ last.out[1].version # 2) => last.res = "InvalidVersion"
        /\ last.out[1].version < 0 => last.res = "DeserializationError"
        /\ last.out[1].version = 2 => (last.res = "Ok" /\ modifications = <<>>)

\* C22: open gives every failure to its caller as an error value: a path
\* that cannot be opened, metadata or a mapping that cannot be had, and a file
\* without any line terminator give an error, and the program goes on.
C22_OpenReturnsErrors ==
    (last.op = "new" /\ last.out # <<>>) =>
        /\ last.res # "Panic"
        /\ (last.out[1].io # "ok" \/ ~last.out[1].terminated) => last.res # "Ok"

\* the insertions of every chain of a store are in strictly ascending time
ChainsAscending(mods) ==
    \A at \in DOMAIN mods :
       \A j \in 1..(Len(ChainAt(mods, at)) - 1) :
          ChainAt(mods, at)[j].time < ChainAt(mods, at)[j + 1].time

\* prev is the entry just before cur in a get_lines result of the state
AdjacentInWindow(prev, cur) ==
    /\ prev # None
    /\ \E k \in 0..PosDen :
          \E w \in {Window(k, MaxN)} :
             /\ w.res = "Ok"
             /\ \E i \in 2..Len(w.events) :
                   w.events[i] = cur /\ w.events[i - 1] = prev[1]

\* C31: an Addition that returns Ok, made with previous and current adjacent
\* in a get_lines result on a store whose chains are ascending in time,
\* leaves every chain ascending in time, whatever its order argument.
C31_AdditionKeepsChainsAscending ==
    [][ (/\ last'.op = "action"
         /\ last'.act.kind = "Addition"
         /\ last'.res = "Ok"
         /\ AdjacentInWindow(last'.prev, last'.cur)
         /\ ChainsAscending(modifications)) =>
            ChainsAscending(modifications') ]_vars

\* the errors action returns
ActionErrors == {"TimingError", "UnverifiableTime", "ModificationError"}

\* C32: when action returns TimingError, UnverifiableTime or
\* ModificationError the store is what it was before the call, its set of
\* keys included: no chain has been created at current.byte_location.
C32_RejectedActionCreatesNoChain ==
    [][ (last'.op = "action" /\ last'.res \in ActionErrors) =>
           /\ DOMAIN modifications' = DOMAIN modifications
           /\ modifications' = modifications ]_vars

\* a store without its empty chains whose original line is not deleted
WithoutNoOpChains(mods) ==
    [at \in {k \in DOMAIN mods : mods[k] # NewChain} |-> mods[at]]

\* the actions a caller may issue next
NextActions ==
    {Addition(e) : e \in NewEvents} \cup {Deletion} \cup {ModifyData(d) : d \in NewData}

\* get_lines, get_order and save_to_file give the same on the store and on
\* the store without its no-op chains
NoOpChainsUnseenByReads ==
    \E bare \in {WithoutNoOpChains(modifications)} :
       /\ \A k \in 0..PosDen, n \in 0..MaxN :
             get_lines(mmap, bare, BytePos(k), n) = Window(k, n)
       /\ \A at \in DOMAIN modifications \cup {0}, t \in OrderTimes :
             get_order(bare, at, Event(t, Output(<<>>)))
               = get_order(modifications, at, Event(t, Output(<<>>)))
       /\ \E saved \in {write_modified_file(mmap, header, modifications)},
             same \in {write_modified_file(mmap, header, bare)} :
             /\ same.res = saved.res
             /\ ChunkBytes(same.chunks) = ChunkBytes(saved.chunks)

\* every action on an entry of a window returns the same and leaves the same
\* store, no-op chains aside, on the store and on the store without them
NoOpChainsUnseenByActions ==
    \E bare \in {WithoutNoOpChains(modifications)} :
       \A k \in 0..PosDen :
          \E w \in {Window(k, MaxN)} :
             \A i \in 1..Len(w.events), order \in 0..MaxOrder, act \in NextActions :
                \A prev \in Prevs(w.events, i) :
                   \E r \in {action(modifications, act, order, w.events[i], prev)},
                      b \in {action(bare, act, order, w.events[i], prev)} :
                      /\ r.res = b.res
                      /\ WithoutNoOpChains(r.mods) = WithoutNoOpChains(b.mods)

\* C33: a store and the same store without its empty chains that delete
\* nothing give the same get_lines at every position and length, the same
\* get_order, the same saved file and the same result and effect of every
\* action; and no operation removes a key of the store.
C33_NoOpChainIsAbsence ==
    /\ [](Running => NoOpChainsUnseenByReads /\ NoOpChainsUnseenByActions)
    /\ [][DOMAIN modifications \subseteq DOMAIN modifications']_vars

\* the offsets of the first n original lines that start after byte_pos
LinesAfter(mm, byte_pos, n) ==
    Bind(LAMBDA starts : {s \in starts : Cardinality({t \in starts : t < s}) < n},
         {s \in 1..(Len(mm) - 1) : mm[s] = LF /\ s > byte_pos})

C35_LexerAcceptsThreeFields ==
    last.op = "lex" =>
        (last.res = "Ok"
           <=> (last.out[1].open /\ last.out[1].close /\ Len(last.out[1].fields) = 3))

\* the text holds a backslash followed by the letter n
HoldsBackslashN(s) == \E i \in 1..(Len(s) - 1) : s[i] = BS /\ s[i + 1] = "n"

\* C36: a line of three fields whose payload holds a backslash followed by
\* the letter n is accepted by the lexer, and the payload of the event still
\* holds that backslash followed by n: no line feed is made of the two and
\* the backslash is not dropped.
C36_LexerKeepsBackslashSequences ==
    (/\ last.op = "lex"
     /\ last.out[1].open /\ last.out[1].close
     /\ Len(last.out[1].fields) = 3
     /\ HoldsBackslashN(last.out[1].fields[3])) =>
        /\ last.res = "Ok"
        /\ LF \notin {last.out[1].parsed.event.data.text[i] :
                        i \in 1..Len(last.out[1].parsed.event.data.text)}
        /\ HoldsBackslashN(last.out[1].parsed.event.data.text)

\* C37: a well-formed line [t, "c", "text"] read as a JSON array of three
\* elements and the same text read by the lexer give the same outcome: both
\* accept it with the same time, the same variant and the same payload,
\* escaped quotes and backslash sequences included, or both reject it, as
\* they do a malformed Resize payload.
C37_PathsAgree ==
    last.op = "parse_paths" =>
        /\ last.out[1].array.ok = last.out[1].string.ok
        /\ last.out[1].array.ok => last.out[1].array.event = last.out[1].string.event

====
